---- MODULE Spec2Model ----
(***************************************************************************)
(* MemoryHug (src/main.cpp): the 8-bit float codec MemoryManager::Float8,  *)
(* the allocation tracker (totalAllocated, totalFreed, memMutex) and the   *)
(* benchmark harness runAllTests.                                          *)
(*                                                                         *)
(* Three specifications over one state:                                    *)
(*   SpecCodec  the codec applied to inputs drawn from bounded sets;       *)
(*   Spec       the program: main -> runAllTests, single-threaded;         *)
(*   SpecConc   several threads calling the tracker's entry points, at the *)
(*              granularity of single loads and stores.                    *)
(***************************************************************************)
EXTENDS Integers, Sequences, FiniteSets, TLC

VARIABLES
    \* ---- codec run (SpecCodec)
    cpc,            \* position of the codec run
    x, y,           \* the native float inputs
    ex, ey,         \* Float8(x).value, Float8(y).value
    dx,             \* static_cast<float>(Float8(x))
    combined,       \* (Float8(x) + Float8(y)).value or (Float8(x) * Float8(y)).value
    dcombined,      \* static_cast<float>(combined)
    op,             \* "none", "add" or "mul"
    \* ---- the tracker's statics (main.cpp 79-81, 164-166)
    totalAllocated,
    totalFreed,
    memMutex,       \* the thread that holds memMutex, or NoThread
    \* ---- harness run (Spec)
    hpc,            \* position of main / runAllTests
    iter,           \* the outer loop counter i of the running workload
    raw,            \* what operator new[] returned for the live array
    arr,            \* the Float8 elements of the live array
    cookie,         \* bytes the new[]-expression adds to 1000 * sizeof(Float8)
    nAlloc, nFree,  \* calls of allocate / deallocate since the last reset
    lastAlloc,      \* size argument of the last allocate call
    lastFree,       \* size argument of the last deallocate call
    stdout,         \* the lines printed so far
    \* ---- concurrent run (SpecConc)
    tpc,            \* per thread: position inside the tracker entry point
    tsize,          \* per thread: the size argument of the running call
    treg,           \* per thread: the value loaded from a counter
    tops            \* per thread: number of calls started

codecVars == <<cpc, x, y, ex, ey, dx, combined, dcombined, op>>
trackerVars == <<totalAllocated, totalFreed, memMutex>>
harnessVars == <<hpc, iter, raw, arr, cookie, nAlloc, nFree, lastAlloc, lastFree, stdout>>
concVars == <<tpc, tsize, treg, tops>>
vars == <<codecVars, trackerVars, harnessVars, concVars>>

-----------------------------------------------------------------------------
(* Program constants of Float8 (main.cpp 12-14).                           *)
EXP_BITS == 4
MANT_BITS == 3
BIAS == 7

-----------------------------------------------------------------------------
(* Native floats.  Every value the model handles is a dyadic rational      *)
(* s * 2^e with far fewer than 24 significant bits, so IEEE single         *)
(* arithmetic on it is exact; a float is the record [s, e].                *)

Pow2(n) == 2 ^ n

Abs(n) == IF n < 0 THEN -n ELSE n

Min(a, b) == IF a <= b THEN a ELSE b

RECURSIVE BitLen(_)
BitLen(n) == IF n = 0 THEN 0 ELSE 1 + BitLen(n \div 2)

F(s, e) == [s |-> s, e |-> e]

FZero == F(0, 0)

FromInt(j) == F(j, 0)

\* the significand of f at the exponent e0 <= f.e
Scaled(f, e0) == f.s * Pow2(f.e - e0)

FLess(a, b) == LET m == Min(a.e, b.e) IN Scaled(a, m) < Scaled(b, m)

FLeq(a, b) == LET m == Min(a.e, b.e) IN Scaled(a, m) <= Scaled(b, m)

FEq(a, b) == LET m == Min(a.e, b.e) IN Scaled(a, m) = Scaled(b, m)

FNeg(a) == F(-a.s, a.e)

FAbs(a) == F(Abs(a.s), a.e)

FAdd(a, b) == LET m == Min(a.e, b.e) IN F(Scaled(a, m) + Scaled(b, m), m)

FSub(a, b) == FAdd(a, FNeg(b))

FMul(a, b) == F(a.s * b.s, a.e + b.e)

\* std::frexp(f, &exponent) for f > 0: f = mantissa * 2^exponent,
\* mantissa in [0.5, 1)
Frexp(f) == [mantissa |-> F(f.s, -BitLen(f.s)), exponent |-> BitLen(f.s) + f.e]

\* std::ldexp(m, e)
Ldexp(m, e) == F(m.s, m.e + e)

\* static_cast<int>(f): truncation toward zero
TruncToInt(f) ==
    IF f.e >= 0 THEN f.s * Pow2(f.e)
    ELSE IF f.s >= 0 THEN f.s \div Pow2(-f.e)
    ELSE -((-f.s) \div Pow2(-f.e))

-----------------------------------------------------------------------------
(* Bit operations on non-negative ints.                                    *)

ShiftL(a, n) == a * Pow2(n)

ShiftR(a, n) == a \div Pow2(n)

RECURSIVE BitAnd(_, _)
BitAnd(a, b) ==
    IF a = 0 \/ b = 0 THEN 0
    ELSE (IF a % 2 = 1 /\ b % 2 = 1 THEN 1 ELSE 0) + 2 * BitAnd(a \div 2, b \div 2)

RECURSIVE BitOr(_, _)
BitOr(a, b) ==
    IF a = 0 THEN b
    ELSE IF b = 0 THEN a
    ELSE (IF a % 2 = 1 \/ b % 2 = 1 THEN 1 ELSE 0) + 2 * BitOr(a \div 2, b \div 2)

\* the conversion of an int to uint8_t
ToUint8(n) == n % 256

-----------------------------------------------------------------------------
(* Float8 (main.cpp 10-76).                                                *)

\* the biased exponent the constructor computes for f # 0 (lines 24-29)
BiasedExp(f) == Frexp(FAbs(f)).exponent + BIAS

\* Float8::Float8(float f): the byte stored in value (lines 17-39)
Float8(f) ==
    IF FEq(f, FZero) THEN 0
    ELSE LET sign == IF FLess(f, FZero) THEN 1 ELSE 0
             fr == Frexp(FAbs(f))
             mantissa == fr.mantissa
             exponent == fr.exponent + BIAS
         IN  IF exponent <= 0 THEN 0
             ELSE IF exponent >= ShiftL(1, EXP_BITS)
             THEN ToUint8(BitOr(ShiftL(sign, 7),
                                ShiftL(ShiftL(1, EXP_BITS) - 1, MANT_BITS)))
             ELSE LET mant == TruncToInt(FMul(mantissa, FromInt(ShiftL(1, MANT_BITS))))
                  IN  ToUint8(BitOr(BitOr(ShiftL(sign, 7), ShiftL(exponent, MANT_BITS)),
                                    mant))

\* operator float() without lines 44 and 50: the sign bit is not read
ToFloatMagnitude(value) ==
    IF value = 0 THEN FZero
    ELSE LET exponent == BitAnd(ShiftR(value, MANT_BITS), ShiftL(1, EXP_BITS) - 1) - BIAS
             mantissa == FAdd(F(BitAnd(value, ShiftL(1, MANT_BITS) - 1), -MANT_BITS),
                              FromInt(1))
         IN  Ldexp(mantissa, exponent)

\* Float8::operator float() (lines 41-51)
ToFloat(value) ==
    IF value = 0 THEN FZero
    ELSE LET sign == BitAnd(ShiftR(value, 7), 1)
             exponent == BitAnd(ShiftR(value, MANT_BITS), ShiftL(1, EXP_BITS) - 1) - BIAS
             mantissa == FAdd(F(BitAnd(value, ShiftL(1, MANT_BITS) - 1), -MANT_BITS),
                              FromInt(1))
             result == Ldexp(mantissa, exponent)
         IN  IF sign = 1 THEN FNeg(result) ELSE result

\* Float8::operator+ (lines 53-55)
Float8Add(a, b) == Float8(FAdd(ToFloat(a), ToFloat(b)))

\* Float8::operator* (lines 57-59)
Float8Mul(a, b) == Float8(FMul(ToFloat(a), ToFloat(b)))

-----------------------------------------------------------------------------
(* Bounds of the model.                                                    *)

\* codec inputs are +-k * 2^(q - 10), k in 1..MaxMant, q in 0..MaxShift
MaxMant == 20
MaxShift == 16
\* second operands of + and * are +-k, k in 1..MaxOperand
MaxOperand == 4
\* stands for the 1000000 iterations of the workloads' outer loops
Iterations == 3
\* durations measured by the clock, in ticks
MaxTicks == 2
\* threads and calls per thread of the concurrent run
NumThreads == 2
MaxCalls == 2

-----------------------------------------------------------------------------
(* Values of the variables a specification does not use.                   *)

\* memMutex unlocked (line 166); threads are numbered from 1
NoThread == 0

Threads == 1..NumThreads

CodecOff ==
    /\ cpc = "off" /\ x = FZero /\ y = FZero /\ ex = 0 /\ ey = 0
    /\ dx = FZero /\ combined = 0 /\ dcombined = FZero /\ op = "none"

\* the definitions of the statics (lines 164-166)
TrackerInit == totalAllocated = 0 /\ totalFreed = 0 /\ memMutex = NoThread

HarnessOff ==
    /\ hpc = "off" /\ iter = 0 /\ raw = "none" /\ arr = <<>> /\ cookie = 0
    /\ nAlloc = 0 /\ nFree = 0 /\ lastAlloc = 0 /\ lastFree = 0 /\ stdout = <<>>

ConcOff ==
    /\ tpc = [t \in Threads |-> "off"]
    /\ tsize = [t \in Threads |-> 0]
    /\ treg = [t \in Threads |-> 0]
    /\ tops = [t \in Threads |-> 0]

-----------------------------------------------------------------------------
(* SpecCodec: Float8 applied to inputs from bounded sets.                  *)

XInputs ==
    {FZero} \cup { F(sg * k, q - (BIAS + MANT_BITS)) :
                     sg \in {1, -1}, k \in 1..MaxMant, q \in 0..MaxShift }

YInputs == { FromInt(sg * k) : sg \in {1, -1}, k \in 1..MaxOperand }

InitCodec ==
    /\ cpc = "input"
    /\ x \in XInputs
    /\ y \in YInputs
    /\ ex = 0 /\ ey = 0 /\ dx = FZero /\ combined = 0 /\ dcombined = FZero
    /\ op = "none"
    /\ TrackerInit /\ HarnessOff /\ ConcOff

\* Float8 a(x), b(y);
EncodeStep ==
    /\ cpc = "input"
    /\ ex' = Float8(x)
    /\ ey' = Float8(y)
    /\ cpc' = "encoded"
    /\ UNCHANGED <<x, y, dx, combined, dcombined, op, trackerVars, harnessVars, concVars>>

\* static_cast<float>(a)
DecodeStep ==
    /\ cpc = "encoded"
    /\ dx' = ToFloat(ex)
    /\ cpc' = "decoded"
    /\ UNCHANGED <<x, y, ex, ey, combined, dcombined, op, trackerVars, harnessVars, concVars>>

\* a + b
AddStep ==
    /\ cpc = "decoded"
    /\ combined' = Float8Add(ex, ey)
    /\ op' = "add"
    /\ cpc' = "combined"
    /\ UNCHANGED <<x, y, ex, ey, dx, dcombined, trackerVars, harnessVars, concVars>>

\* a * b
MulStep ==
    /\ cpc = "decoded"
    /\ combined' = Float8Mul(ex, ey)
    /\ op' = "mul"
    /\ cpc' = "combined"
    /\ UNCHANGED <<x, y, ex, ey, dx, dcombined, trackerVars, harnessVars, concVars>>

\* static_cast<float>(a + b), static_cast<float>(a * b)
DecodeCombined ==
    /\ cpc = "combined"
    /\ dcombined' = ToFloat(combined)
    /\ cpc' = "finished"
    /\ UNCHANGED <<x, y, ex, ey, dx, combined, op, trackerVars, harnessVars, concVars>>

NextCodec ==
    \/ EncodeStep
    \/ DecodeStep
    \/ AddStep
    \/ MulStep
    \/ DecodeCombined

SpecCodec == InitCodec /\ [][NextCodec]_vars

-----------------------------------------------------------------------------
(* The allocation tracker, one whole call at a time (the calling thread    *)
(* acquires memMutex on entry and releases it on return).                  *)

\* what std::malloc can return: a block, or a null pointer when the memory
\* source is exhausted
MallocResults == {"block", "null"}

\* MemoryManager::allocate(size) returning ptr (lines 83-87)
Allocate(size, ptr) ==
    /\ memMutex = NoThread
    /\ totalAllocated' = totalAllocated + size
    /\ ptr \in MallocResults
    /\ UNCHANGED <<totalFreed, memMutex>>

\* deallocate without line 91: the freed bytes are not counted
DeallocateUncounted(ptr, size) ==
    /\ memMutex = NoThread
    /\ UNCHANGED <<totalAllocated, totalFreed, memMutex>>

\* MemoryManager::deallocate(ptr, size) (lines 89-93)
Deallocate(ptr, size) ==
    /\ memMutex = NoThread
    /\ totalFreed' = totalFreed + size
    /\ UNCHANGED <<totalAllocated, memMutex>>

\* resetMemoryTracking without line 130: totalFreed keeps its value
resetAllocatedOnly ==
    /\ totalAllocated' = 0
    /\ UNCHANGED <<totalFreed, memMutex>>

\* MemoryManager::resetMemoryTracking() (lines 128-131)
resetMemoryTracking ==
    /\ totalAllocated' = 0
    /\ totalFreed' = 0
    /\ UNCHANGED memMutex

-----------------------------------------------------------------------------
(* Spec: main -> runAllTests (lines 133-161, 168-172).                     *)

\* new Float8[1000] (lines 98, 110) and sizeof(Float8) (one uint8_t, line 11)
NumElements == 1000
SizeofFloat8 == 1

\* estimated CPU power in watts (line 137)
cpuPower == 20

\* the class declares only the sized operator delete[](void*, size_t), so the
\* new[]-expression stores the element count in front of the array: one
\* size_t, 4 or 8 bytes with the build
CookieSizes == {4, 8}

\* the size the new[]-expression passes to operator new[] (lines 69-71)
ArrayBytes == NumElements * SizeofFloat8 + cookie

\* totalAllocated / (1024.0 * 1024.0), the quotient handed to operator<<
\* (lines 105-106, 120-121), kept exact; the decimal rendering is not modelled
MB(n) == [num |-> n, den |-> 1024 * 1024]

\* MemoryManager::estimateEnergyConsumption (lines 124-126)
estimateEnergyConsumption(executionTime, power) == executionTime * power

\* the elements after new Float8[1000]: each built by Float8(0.0f)
Constructed == [j \in 0..(NumElements - 1) |-> Float8(FZero)]

\* the elements after data[j] = static_cast<float>(j) for j in 0..999
Filled == [j \in 0..(NumElements - 1) |-> Float8(FromInt(j))]

Init ==
    /\ hpc = "start"
    /\ iter = 0 /\ raw = "none" /\ arr = <<>>
    /\ cookie \in CookieSizes
    /\ nAlloc = 0 /\ nFree = 0 /\ lastAlloc = 0 /\ lastFree = 0
    /\ stdout = <<>>
    /\ TrackerInit /\ CodecOff /\ ConcOff

\* line 134, and the entry of nonOptimizedMemoryUsage
Begin ==
    /\ hpc = "start"
    /\ stdout' = Append(stdout, [line |-> "banner"])
    /\ iter' = 0
    /\ hpc' = "nonopt_loop"
    /\ UNCHANGED <<raw, arr, cookie, nAlloc, nFree, lastAlloc, lastFree,
                   trackerVars, codecVars, concVars>>

\* the new[]-expression of a workload: operator new[] -> allocate, then the
\* construction of the elements.  A null result is used unchecked.
NewArray(okpc, nullpc) ==
    \E ptr \in MallocResults :
        /\ Allocate(ArrayBytes, ptr)
        /\ nAlloc' = nAlloc + 1
        /\ lastAlloc' = ArrayBytes
        /\ raw' = ptr
        /\ IF ptr = "null"
           THEN arr' = arr /\ hpc' = nullpc
           ELSE arr' = Constructed /\ hpc' = okpc

\* the delete[]-expression of a workload: operator delete[] -> deallocate
DeleteArray ==
    /\ Deallocate(raw, ArrayBytes)
    /\ nFree' = nFree + 1
    /\ lastFree' = ArrayBytes
    /\ raw' = "none"
    /\ arr' = <<>>

\* line 98
NonOptNew ==
    /\ hpc = "nonopt_loop"
    /\ iter < Iterations
    /\ NewArray("nonopt_fill", "nonopt_null")
    /\ UNCHANGED <<iter, cookie, nFree, lastFree, stdout, codecVars, concVars>>

\* lines 99-101
NonOptFill ==
    /\ hpc = "nonopt_fill"
    /\ arr' = Filled
    /\ hpc' = "nonopt_delete"
    /\ UNCHANGED <<iter, raw, cookie, nAlloc, nFree, lastAlloc, lastFree, stdout,
                   trackerVars, codecVars, concVars>>

\* line 102, and ++i of line 97
NonOptDelete ==
    /\ hpc = "nonopt_delete"
    /\ DeleteArray
    /\ iter' = iter + 1
    /\ hpc' = "nonopt_loop"
    /\ UNCHANGED <<cookie, nAlloc, lastAlloc, stdout, codecVars, concVars>>

\* lines 104-106
NonOptReport ==
    /\ hpc = "nonopt_loop"
    /\ ~(iter < Iterations)
    /\ stdout' = Append(stdout, [line |-> "Non-optimized memory",
                                 allocated |-> MB(totalAllocated),
                                 freed |-> MB(totalFreed)])
    /\ hpc' = "nonopt_timed"
    /\ UNCHANGED <<iter, raw, arr, cookie, nAlloc, nFree, lastAlloc, lastFree,
                   trackerVars, codecVars, concVars>>

\* lines 142-147: the clock has measured some duration
NonOptTiming ==
    /\ hpc = "nonopt_timed"
    /\ \E d \in 0..MaxTicks :
         stdout' = stdout \o
            << [line |-> "Non-optimized duration", seconds |-> d],
               [line |-> "Non-optimized energy consumption",
                joules |-> estimateEnergyConsumption(d, cpuPower)] >>
    /\ hpc' = "reset"
    /\ UNCHANGED <<iter, raw, arr, cookie, nAlloc, nFree, lastAlloc, lastFree,
                   trackerVars, codecVars, concVars>>

\* line 150
Reset ==
    /\ hpc = "reset"
    /\ resetMemoryTracking
    /\ nAlloc' = 0
    /\ nFree' = 0
    /\ hpc' = "opt_new"
    /\ UNCHANGED <<iter, raw, arr, cookie, lastAlloc, lastFree, stdout,
                   codecVars, concVars>>

\* line 110, and i = 0 of line 112
OptNew ==
    /\ hpc = "opt_new"
    /\ NewArray("opt_fill", "opt_null")
    /\ iter' = 0
    /\ UNCHANGED <<cookie, nFree, lastFree, stdout, codecVars, concVars>>

\* lines 112-116: one iteration of the outer loop
OptFill ==
    /\ hpc = "opt_fill"
    /\ iter < Iterations
    /\ arr' = Filled
    /\ iter' = iter + 1
    /\ UNCHANGED <<hpc, raw, cookie, nAlloc, nFree, lastAlloc, lastFree, stdout,
                   trackerVars, codecVars, concVars>>

\* line 118
OptDelete ==
    /\ hpc = "opt_fill"
    /\ ~(iter < Iterations)
    /\ DeleteArray
    /\ hpc' = "opt_report"
    /\ UNCHANGED <<iter, cookie, nAlloc, lastAlloc, stdout, codecVars, concVars>>

\* lines 119-121
OptReport ==
    /\ hpc = "opt_report"
    /\ stdout' = Append(stdout, [line |-> "Optimized memory",
                                 allocated |-> MB(totalAllocated),
                                 freed |-> MB(totalFreed)])
    /\ hpc' = "opt_timed"
    /\ UNCHANGED <<iter, raw, arr, cookie, nAlloc, nFree, lastAlloc, lastFree,
                   trackerVars, codecVars, concVars>>

\* lines 155-160, and return 0 of line 171
OptTiming ==
    /\ hpc = "opt_timed"
    /\ \E d \in 0..MaxTicks :
         stdout' = stdout \o
            << [line |-> "Optimized duration", seconds |-> d],
               [line |-> "Optimized energy consumption",
                joules |-> estimateEnergyConsumption(d, cpuPower)] >>
    /\ hpc' = "done"
    /\ UNCHANGED <<iter, raw, arr, cookie, nAlloc, nFree, lastAlloc, lastFree,
                   trackerVars, codecVars, concVars>>

\* operator new[] has returned a null pointer, which the new[]-expression does
\* not check: it stores the element count and constructs the elements through
\* it.  That is undefined; the build either faults (the process dies) or the
\* stores land in memory at address 0 and the workload goes on.
NullDeref ==
    /\ hpc \in {"nonopt_null", "opt_null"}
    /\ \/ hpc' = "crashed" /\ arr' = arr
       \/ /\ hpc' = (IF hpc = "nonopt_null" THEN "nonopt_fill" ELSE "opt_fill")
          /\ arr' = Constructed
    /\ UNCHANGED <<iter, raw, cookie, nAlloc, nFree, lastAlloc, lastFree, stdout,
                   trackerVars, codecVars, concVars>>

Next ==
    \/ Begin
    \/ NonOptNew
    \/ NonOptFill
    \/ NonOptDelete
    \/ NonOptReport
    \/ NonOptTiming
    \/ Reset
    \/ OptNew
    \/ OptFill
    \/ OptDelete
    \/ OptReport
    \/ OptTiming
    \/ NullDeref

Spec == Init /\ [][Next]_vars

-----------------------------------------------------------------------------
(* SpecConc: threads calling allocate, deallocate, resetMemoryTracking and  *)
(* the reporting reads of lines 104-106, one load or store at a time.       *)

\* sizes passed by operator new (one Float8) and operator new[]
ConcSizes == {SizeofFloat8, NumElements * SizeofFloat8}

InitConc ==
    /\ tpc = [t \in Threads |-> "idle"]
    /\ tsize = [t \in Threads |-> 0]
    /\ treg = [t \in Threads |-> 0]
    /\ tops = [t \in Threads |-> 0]
    /\ TrackerInit /\ CodecOff /\ HarnessOff

\* thread t enters the entry point whose first position is first
Call(t, first, size) ==
    /\ tpc[t] = "idle"
    /\ tops[t] < MaxCalls
    /\ tpc' = [tpc EXCEPT ![t] = first]
    /\ tsize' = [tsize EXCEPT ![t] = size]
    /\ tops' = [tops EXCEPT ![t] = @ + 1]
    /\ UNCHANGED <<treg, trackerVars, codecVars, harnessVars>>

\* thread t moves from position from to position to
Goto(t, from, to) ==
    /\ tpc[t] = from
    /\ tpc' = [tpc EXCEPT ![t] = to]
    /\ UNCHANGED <<tsize, tops, codecVars, harnessVars>>

CallAllocate(t, size) == Call(t, "alloc_lock", size)

\* line 84: std::lock_guard<std::mutex> lock(memMutex)
AllocLock(t) ==
    /\ Goto(t, "alloc_lock", "alloc_load")
    /\ memMutex = NoThread
    /\ memMutex' = t
    /\ UNCHANGED <<treg, totalAllocated, totalFreed>>

\* line 85, the load of totalAllocated += size
AllocLoad(t) ==
    /\ Goto(t, "alloc_load", "alloc_store")
    /\ treg' = [treg EXCEPT ![t] = totalAllocated]
    /\ UNCHANGED trackerVars

\* line 85, the store of totalAllocated += size
AllocStore(t) ==
    /\ Goto(t, "alloc_store", "alloc_return")
    /\ totalAllocated' = treg[t] + tsize[t]
    /\ UNCHANGED <<treg, totalFreed, memMutex>>

\* lines 86-87: std::malloc, then the guard releases memMutex
AllocReturn(t) ==
    /\ Goto(t, "alloc_return", "idle")
    /\ memMutex' = NoThread
    /\ UNCHANGED <<treg, totalAllocated, totalFreed>>

CallDeallocate(t, size) == Call(t, "free_lock", size)

\* line 90
FreeLock(t) ==
    /\ Goto(t, "free_lock", "free_load")
    /\ memMutex = NoThread
    /\ memMutex' = t
    /\ UNCHANGED <<treg, totalAllocated, totalFreed>>

\* line 91, the load of totalFreed += size
FreeLoad(t) ==
    /\ Goto(t, "free_load", "free_store")
    /\ treg' = [treg EXCEPT ![t] = totalFreed]
    /\ UNCHANGED trackerVars

\* line 91, the store of totalFreed += size
FreeStore(t) ==
    /\ Goto(t, "free_store", "free_return")
    /\ totalFreed' = treg[t] + tsize[t]
    /\ UNCHANGED <<treg, totalAllocated, memMutex>>

\* lines 92-93: std::free, then the guard releases memMutex
FreeReturn(t) ==
    /\ Goto(t, "free_return", "idle")
    /\ memMutex' = NoThread
    /\ UNCHANGED <<treg, totalAllocated, totalFreed>>

CallReset(t) == Call(t, "reset_allocated", 0)

\* line 129
ResetAllocated(t) ==
    /\ Goto(t, "reset_allocated", "reset_freed")
    /\ totalAllocated' = 0
    /\ UNCHANGED <<treg, totalFreed, memMutex>>

\* line 130
ResetFreed(t) ==
    /\ Goto(t, "reset_freed", "idle")
    /\ totalFreed' = 0
    /\ UNCHANGED <<treg, totalAllocated, memMutex>>

CallReport(t) == Call(t, "report_allocated", 0)

\* lines 105, 120: the read of totalAllocated
ReportAllocated(t) ==
    /\ Goto(t, "report_allocated", "report_freed")
    /\ treg' = [treg EXCEPT ![t] = totalAllocated]
    /\ UNCHANGED trackerVars

\* lines 106, 121: the read of totalFreed
ReportFreed(t) ==
    /\ Goto(t, "report_freed", "idle")
    /\ treg' = [treg EXCEPT ![t] = totalFreed]
    /\ UNCHANGED trackerVars

NextConc ==
    \/ \E t \in Threads, size \in ConcSizes : CallAllocate(t, size)
    \/ \E t \in Threads : AllocLock(t)
    \/ \E t \in Threads : AllocLoad(t)
    \/ \E t \in Threads : AllocStore(t)
    \/ \E t \in Threads : AllocReturn(t)
    \/ \E t \in Threads, size \in ConcSizes : CallDeallocate(t, size)
    \/ \E t \in Threads : FreeLock(t)
    \/ \E t \in Threads : FreeLoad(t)
    \/ \E t \in Threads : FreeStore(t)
    \/ \E t \in Threads : FreeReturn(t)
    \/ \E t \in Threads : CallReset(t)
    \/ \E t \in Threads : ResetAllocated(t)
    \/ \E t \in Threads : ResetFreed(t)
    \/ \E t \in Threads : CallReport(t)
    \/ \E t \in Threads : ReportAllocated(t)
    \/ \E t \in Threads : ReportFreed(t)

SpecConc == InitConc /\ [][NextConc]_vars

-----------------------------------------------------------------------------
(* Properties of the codec, checked under SpecCodec.                       *)

Encoded == cpc \in {"encoded", "decoded", "combined", "finished"}

Decoded == cpc \in {"decoded", "combined", "finished"}

Bytes == 0..255

ExpField(b) == (b \div 8) % 16

\* the bytes of the format's normal range: exponent field 1..15
NormalBytes == { b \in Bytes : ExpField(b) >= 1 }

\* f is a value of the format: zero or the value of a normal byte
Representable(f) == FEq(f, FZero) \/ \E b \in NormalBytes : FEq(ToFloat(b), f)

\* the constructor takes neither the underflow nor the overflow branch on f
InNormalRange(f) == ~FEq(f, FZero) /\ BiasedExp(f) >= 1 /\ BiasedExp(f) <= 15

\* |got - want| <= |want| / 8
WithinStep(got, want) == FLeq(FMul(FromInt(8), FAbs(FSub(got, want))), FAbs(want))

\* the largest magnitude a byte decodes to: 1.875 * 2^8 = 480
MaxRepresentable ==
    CHOOSE m \in { FAbs(ToFloat(b)) : b \in Bytes } :
        \A b \in Bytes : FLeq(FAbs(ToFloat(b)), m)

\* the smallest magnitude a normal byte decodes to: 2^-6
MinNormal ==
    CHOOSE m \in { FAbs(ToFloat(b)) : b \in NormalBytes } :
        \A b \in NormalBytes : FLeq(m, FAbs(ToFloat(b)))

\* C1: for every nonzero x in the normal range, decode(encode(x)) is within
\* one quantization step of x: |decode(encode(x)) - x| <= |x| / 8.
C1_RoundTrip == (Decoded /\ InNormalRange(x)) => WithinStep(dx, x)

\* C2: in the normal range the byte is sign in bit 7, e + 7 in bits 6-3 and
\* floor((m*2 - 1) * 8) in bits 2-0, where |x| = m * 2^e is the frexp
\* decomposition, and decode returns a value in the binade of x.
C2_NormalEncoding ==
    InNormalRange(x) =>
        LET fr == Frexp(FAbs(x))
            field == TruncToInt(FMul(FSub(FMul(fr.mantissa, FromInt(2)), FromInt(1)),
                                     FromInt(8)))
        IN  /\ Encoded =>
                ex = (IF x.s < 0 THEN 128 ELSE 0) + (fr.exponent + 7) * 8 + field
            /\ Decoded => Frexp(FAbs(dx)).exponent = fr.exponent

\* C3: when the magnitude of x exceeds the exponent field's range (biased
\* exponent >= 16), decode(encode(x)) is the largest representable magnitude
\* (480) with the sign of x.
C3_Saturation ==
    (Decoded /\ ~FEq(x, FZero) /\ BiasedExp(x) >= 16) =>
        FEq(dx, IF x.s < 0 THEN FNeg(MaxRepresentable) ELSE MaxRepresentable)

\* C4: encode(x) is the zero byte for every nonzero x with |x| < 2^-6 (the
\* smallest normal value), and is not the zero byte for every |x| >= 2^-6.
C4_UnderflowToZero ==
    (Encoded /\ ~FEq(x, FZero)) =>
        /\ FLess(FAbs(x), MinNormal) => ex = 0
        /\ FLeq(MinNormal, FAbs(x)) => ex # 0

\* C5 as stated: for every finite nonzero x, the underflow and overflow branches
\* included, decode(encode(x)) > 0 when x > 0 and < 0 when x < 0.
C5_SignPreservationAll ==
    Decoded =>
        /\ FLess(FZero, x) => FLess(FZero, dx)
        /\ FLess(x, FZero) => FLess(dx, FZero)

\* C5 as amended: for every nonzero x on which encode does not take the
\* underflow branch (biased exponent >= 1), the overflow branch included,
\* decode(encode(x)) > 0 when x > 0 and < 0 when x < 0; on the underflow
\* branch decode(encode(x)) is 0.
C5_SignPreservation ==
    (Decoded /\ ~FEq(x, FZero)) =>
        IF BiasedExp(x) >= 1
        THEN /\ FLess(FZero, x) => FLess(FZero, dx)
             /\ FLess(x, FZero) => FLess(dx, FZero)
        ELSE FEq(dx, FZero)

\* a negative input on the overflow branch has been encoded and decoded
C5_Witness == Decoded /\ FLess(x, FZero) /\ BiasedExp(x) >= 16 /\ FLess(dx, FZero)

\* C6: for representable operands a, b whose sum (product) is in the normal
\* range, decode(add(encode(a), encode(b))) is within one quantization step
\* of a + b and decode(multiply(encode(a), encode(b))) of a * b.
C6_ArithmeticClosure ==
    (cpc = "finished" /\ Representable(x) /\ Representable(y)) =>
        /\ (op = "add" /\ InNormalRange(FAdd(x, y))) => WithinStep(dcombined, FAdd(x, y))
        /\ (op = "mul" /\ InNormalRange(FMul(x, y))) => WithinStep(dcombined, FMul(x, y))

-----------------------------------------------------------------------------
(* Properties of the tracker and the harness.                              *)

\* the positions at which a thread is about to load or store a counter
CounterAccess ==
    {"alloc_load", "alloc_store", "free_load", "free_store",
     "reset_allocated", "reset_freed", "report_allocated", "report_freed"}

\* C7: every read and every write of totalAllocated and totalFreed, by
\* allocate, deallocate, reset and the reporting, happens while the thread
\* holds memMutex.  Checked under SpecConc.
C7_CountersUnderLock ==
    \A t \in Threads : tpc[t] \in CounterAccess => memMutex = t

\* C8, the states: freed <= allocated always; with no array outstanding, after
\* N allocate/free cycles since the counters were zero both totals are N * S;
\* in the unoptimized workload N is the loop counter.
C8_Totals ==
    /\ totalFreed <= totalAllocated
    /\ raw = "none" =>
          /\ nFree = nAlloc
          /\ totalAllocated = nAlloc * ArrayBytes
          /\ totalFreed = nAlloc * ArrayBytes
    /\ hpc = "nonopt_loop" =>
          /\ nAlloc = iter
          /\ totalAllocated = iter * ArrayBytes
          /\ totalFreed = iter * ArrayBytes

\* C8, the steps: no step but reset decreases a total.
C8_Monotone ==
    hpc = "reset" \/ (totalAllocated' >= totalAllocated /\ totalFreed' >= totalFreed)

\* C8: starting from reset counters, after N allocate/free cycles of size S
\* allocated-total = freed-total = N * S; at every state in between
\* freed-total <= allocated-total, and neither total decreases except by reset.
C8_Accounting == []C8_Totals /\ [][C8_Monotone]_vars

\* all the cycles of the unoptimized workload are done and counted
C8_Witness ==
    /\ hpc = "nonopt_loop"
    /\ iter = Iterations
    /\ totalAllocated = Iterations * ArrayBytes
    /\ totalFreed = Iterations * ArrayBytes
    /\ totalAllocated > 0

\* the lines of stdout whose tag is tag
Lines(tag) == { k \in 1..Len(stdout) : stdout[k].line = tag }

\* C9: in runAllTests the optimized workload allocates once and frees once,
\* both of the size of one 1000-element array, whatever the number of
\* iterations of its write loop; and the totals it reports are that one
\* size, with nothing of the unoptimized phase in them.
C9_OptimizedOnce ==
    /\ hpc = "opt_fill" =>
          /\ nAlloc = 1 /\ nFree = 0
          /\ lastAlloc = ArrayBytes
          /\ totalAllocated = ArrayBytes /\ totalFreed = 0
    /\ hpc \in {"opt_report", "opt_timed", "done"} =>
          /\ nAlloc = 1 /\ nFree = 1
          /\ lastAlloc = ArrayBytes /\ lastFree = ArrayBytes
          /\ totalAllocated = ArrayBytes /\ totalFreed = ArrayBytes
    /\ \A k \in Lines("Optimized memory") :
          /\ stdout[k].allocated = MB(ArrayBytes)
          /\ stdout[k].freed = MB(ArrayBytes)
    /\ hpc = "done" => Cardinality(Lines("Optimized memory")) = 1

\* the run ended after both phases, the unoptimized one having reported
\* Iterations arrays and the optimized one a single array
C9_Witness ==
    /\ hpc = "done"
    /\ Iterations > 1
    /\ \E k \in Lines("Non-optimized memory") :
          stdout[k].allocated = MB(Iterations * ArrayBytes)
    /\ \E k \in Lines("Optimized memory") : stdout[k].allocated = MB(ArrayBytes)

\* C10: when the memory source is exhausted allocate terminates the process
\* and does not return: no state has a null storage handed to the workload,
\* nor totalAllocated counting the bytes of a failed allocation while the
\* program runs on.
C10_ExhaustionFatal == raw # "null"

====
